---- MODULE Spec2Model ----
(***************************************************************************)
(* Model of CheckboxPlusPrompt (src/index.js): the source query pipeline,  *)
(* the selection model, the navigation handlers, the validation gate and   *)
(* the submission state machine.                                           *)
(*                                                                         *)
(* The prompt object is one record ("self") whose fields are the variables *)
(* below; every method of the class is an operator from a self record to   *)
(* the self record after the call, and every action of the state machine   *)
(* is one event delivered by the host (a key, a line, a promise settling). *)
(***************************************************************************)
EXTENDS Integers, Sequences, FiniteSets, TLC

VARIABLES
    opt,                 \* this.opt: the configuration of the question
    started,             \* _run has been called
    subscribed,          \* the event handlers of _run are installed
    status,              \* this.status: "pending" | "answered"
    rlLine,              \* this.rl.line: the input line, a sequence of characters
    pointer,             \* this.pointer
    firstSourceLoading,  \* this.firstSourceLoading
    choices,             \* this.choices: the Choice objects of the current list
    checkedChoices,      \* this.checkedChoices
    value,               \* this.value
    lastQuery,           \* this.lastQuery
    searching,           \* this.searching
    lastSourcePromise,   \* this.lastSourcePromise: a promise id, 0 for null
    default,             \* this.default
    selection,           \* this.selection: the short forms, set by getCurrentValue
    promises,            \* every promise the source returned, by id
    bottomContent,       \* the error line of the last render
    validation,          \* the last state emitted by handleSubmitEvents
    done,                \* the values the done callback was called with, in order
    initialised,         \* the constructor reached its "Init" block
    thrown,              \* the error thrown to the caller, NoThrow when none
    resolved             \* history: the last promise that resolved while current,
                         \* and the list it resolved with

vars == <<opt, started, subscribed, status, rlLine, pointer, firstSourceLoading,
          choices, checkedChoices, value, lastQuery, searching,
          lastSourcePromise, default, selection, promises,
          bottomContent, validation, done, initialised, thrown, resolved>>

(***************************************************************************)
(* Bounds of the model.                                                    *)
(***************************************************************************)
MaxLine == 1
MaxFetches == 3
MaxAnswer == 3

(***************************************************************************)
(* Values.  A choice's value is opaque and compared with _.isEqual; the    *)
(* model has strings, objects of the form {name: n} and undefined.         *)
(***************************************************************************)
Str(s) == [t |-> "string", s |-> s]
NameObj(n) == [t |-> "object", s |-> n]
Undefined == [t |-> "undefined", s |-> ""]

isEqual(a, b) == a = b

NullNum == -1
NullQuery == <<"null">>
NullDefault == [isNull |-> TRUE, list |-> <<>>]

\* What the prompt throws to its caller.
NoThrow == "none"
ParamError == "You must provide a source parameter"
SourceError == "To be searchable, the source must be a function returing a promise"
DefaultOf(list) == [isNull |-> FALSE, list |-> list]

(***************************************************************************)
(* Sequence helpers (lodash).                                              *)
(***************************************************************************)
Range(seq) == {seq[i] : i \in 1..Len(seq)}

some(seq, v) == \E i \in 1..Len(seq) : isEqual(v, seq[i])

\* _.findIndex(list, _.isEqual.bind(null, v)): zero-based, -1 when absent.
findIndex(list, v) ==
    IF some(list, v)
    THEN (CHOOSE i \in 1..Len(list) :
             /\ isEqual(v, list[i])
             /\ \A j \in 1..(i - 1) : ~isEqual(v, list[j])) - 1
    ELSE -1

\* _.remove(list, _.isEqual.bind(null, v)): what is left of a list of values.
remove(list, v) == SelectSeq(list, LAMBDA x : ~isEqual(v, x))

\* _.remove(list, c => _.isEqual(v, c.value)): what is left of a list of choices.
removeChoices(list, v) == SelectSeq(list, LAMBDA c : ~isEqual(v, c.value))

\* _.map(list, key)
map(list, key) == [i \in 1..Len(list) |-> list[i][key]]

RECURSIVE trimStart(_)
trimStart(l) ==
    IF l # <<>> /\ Head(l) = " " THEN trimStart(Tail(l)) ELSE l

RECURSIVE trimEnd(_)
trimEnd(l) ==
    IF l # <<>> /\ l[Len(l)] = " " THEN trimEnd(SubSeq(l, 1, Len(l) - 1)) ELSE l

trim(l) == trimEnd(trimStart(l))

(***************************************************************************)
(* Choices.  The items a source returns, and the Choices collection built  *)
(* from them.                                                              *)
(***************************************************************************)
Item(name, v, disabled) ==
    [type |-> "choice", name |-> name, value |-> Str(v), short |-> v,
     disabled |-> disabled, checked |-> FALSE]
Separator ==
    [type |-> "separator", name |-> "--------", value |-> Undefined, short |-> "",
     disabled |-> FALSE, checked |-> FALSE]

SourceResults ==
    << <<Item("A-label", "a", FALSE), Item("B-label", "b", FALSE), Item("C-label", "c", FALSE)>>,
       <<Item("A-label", "a", FALSE), Item("A-again", "a", FALSE), Separator, Item("B-label", "b", TRUE)>>,
       <<>> >>

Choices(items) == [i \in 1..Len(items) |-> [items[i] EXCEPT !.checked = FALSE]]

\* Indices (into the list) of the choices that are neither separators nor disabled.
RECURSIVE realIdx(_, _)
realIdx(cs, i) ==
    IF i > Len(cs) THEN <<>>
    ELSE (IF cs[i].type # "separator" /\ ~cs[i].disabled THEN <<i>> ELSE <<>>)
         \o realIdx(cs, i + 1)

realChoices(cs) == realIdx(cs, 1)
realLength(cs) == Len(realChoices(cs))
\* getChoice(selector): the index of the selector-th real choice, 0 for undefined.
getChoice(cs, selector) ==
    IF selector + 1 \in 1..realLength(cs) THEN realChoices(cs)[selector + 1] ELSE 0

\* What checkedChoices keeps of a Choice object: the fields that never change.
Ref(c) == [name |-> c.name, value |-> c.value, short |-> c.short]

(***************************************************************************)
(* The validation gate.  A message is its text and the number put into it  *)
(* (NullNum when the text holds no number); True is the value true.        *)
(***************************************************************************)
Msg(text, n) == [ok |-> FALSE, text |-> text, n |-> n]
True == [ok |-> TRUE, text |-> "true", n |-> NullNum]
NoError == [ok |-> FALSE, text |-> "", n |-> NullNum]

\* A criteria as configured: a bare number (or null), or [number, message].
Bare(n) == [isArray |-> FALSE, n |-> n, message |-> NoError]
Pair(n, text) == [isArray |-> TRUE, n |-> n, message |-> Msg(text, NullNum)]

\* The two default messages of alterValidator, as written there: the
\* template each function fills with the number it is given.
minDefaultMessage == "You have to check at least ${min} choice(s)"
maxDefaultMessage == "You have to check at least ${min} choice(s)"

decomposeCriteria(criteria, defaultMessage) ==
    IF criteria.isArray THEN <<criteria.n, criteria.message>>
    ELSE <<criteria.n, Msg(defaultMessage, criteria.n)>>

\* The validate option of the caller: none, or the one of the example,
\* which wants one value ("a" here) among the answer.
optValidator(kind, answer) ==
    IF some(answer, Str("a")) THEN True ELSE Msg("You cannot abandon a!", NullNum)

truthy(n) == n # 0 /\ n # NullNum

\* validate with the minimum compared by <= : one selection too many asked.
validateOffByOne(o, answer) ==
    LET minC == decomposeCriteria(o.minimumChoices, minDefaultMessage)
        maxC == decomposeCriteria(o.maximumChoices, maxDefaultMessage)
    IN  IF truthy(minC[1]) /\ Len(answer) <= minC[1]
        THEN [isValid |-> minC[2], consulted |-> FALSE]
        ELSE IF truthy(maxC[1]) /\ Len(answer) > maxC[1]
        THEN [isValid |-> maxC[2], consulted |-> FALSE]
        ELSE IF o.validate # "none"
        THEN [isValid |-> optValidator(o.validate, answer), consulted |-> TRUE]
        ELSE [isValid |-> True, consulted |-> FALSE]

\* this.opt.validate as alterValidator installs it; consulted tells whether
\* the caller's validator was called.
validate(o, answer) ==
    LET minC == decomposeCriteria(o.minimumChoices, minDefaultMessage)
        maxC == decomposeCriteria(o.maximumChoices, maxDefaultMessage)
        min == minC[1]
        minMessage == minC[2]
        max == maxC[1]
        maxMessage == maxC[2]
    IN  IF truthy(min) /\ Len(answer) < min
        THEN [isValid |-> minMessage, consulted |-> FALSE]
        ELSE IF truthy(max) /\ Len(answer) > max
        THEN [isValid |-> maxMessage, consulted |-> FALSE]
        ELSE IF o.validate # "none"
        THEN [isValid |-> optValidator(o.validate, answer), consulted |-> TRUE]
        ELSE [isValid |-> True, consulted |-> FALSE]

(***************************************************************************)
(* The prompt object and its methods.                                      *)
(***************************************************************************)
Self ==
    [opt |-> opt, started |-> started, subscribed |-> subscribed, status |-> status,
     rlLine |-> rlLine, pointer |-> pointer, firstSourceLoading |-> firstSourceLoading,
     choices |-> choices, checkedChoices |-> checkedChoices, value |-> value,
     lastQuery |-> lastQuery, searching |-> searching,
     lastSourcePromise |-> lastSourcePromise, default |-> default,
     selection |-> selection, promises |-> promises,
     bottomContent |-> bottomContent, validation |-> validation, done |-> done,
     initialised |-> initialised, thrown |-> thrown]

Becomes(self) ==
    /\ opt' = self.opt
    /\ started' = self.started
    /\ subscribed' = self.subscribed
    /\ status' = self.status
    /\ rlLine' = self.rlLine
    /\ pointer' = self.pointer
    /\ firstSourceLoading' = self.firstSourceLoading
    /\ choices' = self.choices
    /\ checkedChoices' = self.checkedChoices
    /\ value' = self.value
    /\ lastQuery' = self.lastQuery
    /\ searching' = self.searching
    /\ lastSourcePromise' = self.lastSourcePromise
    /\ default' = self.default
    /\ selection' = self.selection
    /\ promises' = self.promises
    /\ bottomContent' = self.bottomContent
    /\ validation' = self.validation
    /\ done' = self.done
    /\ initialised' = self.initialised
    /\ thrown' = self.thrown

\* render(error): of the screen the model keeps the error line.
render(self, error) ==
    [self EXCEPT !.bottomContent = IF self.status = "answered" THEN NoError ELSE error]

\* toggleChoice without the two _.remove calls.
toggleChoiceNoRemove(self, i, checked) ==
    LET choice == self.choices[i]
    IN  [self EXCEPT
           !.value = IF checked THEN Append(@, choice.value) ELSE @,
           !.checkedChoices = IF checked THEN Append(@, Ref(choice)) ELSE @,
           !.choices[i].checked = checked]

\* toggleChoice(choice, checked), the choice being the i-th of this.choices.
toggleChoice(self, i, checked) ==
    LET choice == self.choices[i]
        value1 == remove(self.value, choice.value)
        checked1 == removeChoices(self.checkedChoices, choice.value)
    IN  [self EXCEPT
           !.value = IF checked THEN Append(value1, choice.value) ELSE value1,
           !.checkedChoices = IF checked THEN Append(checked1, Ref(choice)) ELSE checked1,
           !.choices[i].checked = checked]

\* toggleChoice(choice) with the default target, the negation of choice.checked.
toggle(self, i) == toggleChoice(self, i, ~self.choices[i].checked)

\* The source is called (or the static list wrapped): a new pending promise.
PendingPromise == "pending"

\* executeSource without the comparison of the line with lastQuery.
executeSourceAlways(self) ==
    LET line == trim(self.rlLine)
        s1 == [self EXCEPT !.rlLine = line]
        sourcePromise == Len(self.promises) + 1
    IN  [s1 EXCEPT !.promises = Append(@, PendingPromise),
                   !.lastQuery = line,
                   !.lastSourcePromise = sourcePromise,
                   !.searching = TRUE]

\* executeSource without the assignment of this.searching.
executeSourceNoFlag(self) ==
    LET line == trim(self.rlLine)
        s1 == [self EXCEPT !.rlLine = line]
        sourcePromise == Len(self.promises) + 1
    IN  IF line = self.lastQuery THEN s1
        ELSE IF self.opt.searchable /\ self.opt.source # "function"
        THEN [s1 EXCEPT !.thrown = SourceError]
        ELSE [s1 EXCEPT !.promises = Append(@, PendingPromise),
                        !.lastQuery = line,
                        !.lastSourcePromise = sourcePromise]

\* executeSource with the test of the source made after the assignments.
executeSourceLateThrow(self) ==
    LET line == trim(self.rlLine)
        s1 == [self EXCEPT !.rlLine = line]
        sourcePromise == Len(self.promises) + 1
        s2 == [s1 EXCEPT !.lastQuery = line,
                         !.lastSourcePromise = sourcePromise,
                         !.searching = TRUE]
    IN  IF line = self.lastQuery THEN s1
        ELSE IF self.opt.searchable /\ self.opt.source # "function"
        THEN [s2 EXCEPT !.thrown = SourceError]
        ELSE [s2 EXCEPT !.promises = Append(@, PendingPromise)]

executeSource(self) ==
    LET line == trim(self.rlLine)
        s1 == [self EXCEPT !.rlLine = line]
        sourcePromise == Len(self.promises) + 1
    IN  IF line = self.lastQuery THEN s1
        ELSE IF self.opt.searchable /\ self.opt.source # "function"
        THEN [s1 EXCEPT !.thrown = SourceError]
        ELSE [s1 EXCEPT !.promises = Append(@, PendingPromise),
                        !.lastQuery = line,
                        !.lastSourcePromise = sourcePromise,
                        !.searching = TRUE]

\* The forEach with a body that leaves every choice as the source gave it.
forEachChoiceSkipped(self, i) == self

\* The body of the forEach over the new choices, from the i-th on.
RECURSIVE forEachChoice(_, _)
forEachChoice(self, i) ==
    IF i > Len(self.choices) THEN self
    ELSE LET choice == self.choices[i]
             s1 == toggleChoice(self, i, some(self.value, choice.value))
             s2 == IF ~s1.default.isNull /\ findIndex(s1.default.list, choice.value) # -1
                   THEN toggleChoice(s1, i, TRUE)
                   ELSE s1
         IN  forEachChoice(s2, i + 1)

\* The callback without the comparison with lastSourcePromise.
sourceResolvedAlways(self, sourcePromise, items) ==
    LET s1 == [self EXCEPT !.searching = FALSE, !.choices = Choices(items)]
        s2 == forEachChoice(s1, 1)
        s3 == render([s2 EXCEPT !.pointer = 0], NoError)
    IN  [s3 EXCEPT !.default = NullDefault, !.firstSourceLoading = FALSE]

\* The callback without the reset of this.default.
sourceResolvedKeepDefault(self, sourcePromise, items) ==
    IF self.lastSourcePromise # sourcePromise THEN self
    ELSE LET s1 == [self EXCEPT !.searching = FALSE, !.choices = Choices(items)]
             s2 == forEachChoice(s1, 1)
             s3 == render([s2 EXCEPT !.pointer = 0], NoError)
         IN  [s3 EXCEPT !.firstSourceLoading = FALSE]

\* The callback without the reset of the pointer.
sourceResolvedKeepPointer(self, sourcePromise, items) ==
    IF self.lastSourcePromise # sourcePromise THEN self
    ELSE LET s1 == [self EXCEPT !.searching = FALSE, !.choices = Choices(items)]
             s2 == forEachChoice(s1, 1)
             s3 == render(s2, NoError)
         IN  [s3 EXCEPT !.default = NullDefault,
                        !.firstSourceLoading = FALSE]

\* The callback executeSource gives to sourcePromise.then, for the promise
\* sourcePromise resolved with the items.
sourceResolved(self, sourcePromise, items) ==
    IF self.lastSourcePromise # sourcePromise THEN self
    ELSE LET s1 == [self EXCEPT !.searching = FALSE, !.choices = Choices(items)]
             s2 == forEachChoice(s1, 1)
             s3 == render([s2 EXCEPT !.pointer = 0], NoError)
         IN  [s3 EXCEPT !.default = NullDefault,
                        !.firstSourceLoading = FALSE]

getCurrentValue(self) ==
    [self |-> [self EXCEPT !.selection = map(self.checkedChoices, "short")],
     value |-> map(self.checkedChoices, "value")]

onEnd(self, state) ==
    LET s1 == render([self EXCEPT !.status = "answered"], NoError)
    IN  [s1 EXCEPT !.done = Append(@, state.value)]

onError(self, state) == render(self, state.isValid)

\* onUpKey with the length of the whole list, separators and disabled
\* choices included.
onUpKeyAllEntries(self) ==
    LET len == Len(self.choices)
    IN  render([self EXCEPT !.pointer = IF @ > 0 THEN @ - 1 ELSE len - 1], NoError)

onUpKey(self) ==
    LET len == realLength(self.choices)
    IN  render([self EXCEPT !.pointer = IF @ > 0 THEN @ - 1 ELSE len - 1], NoError)

onDownKey(self) ==
    LET len == realLength(self.choices)
    IN  render([self EXCEPT !.pointer = IF @ < len - 1 THEN @ + 1 ELSE 0], NoError)

onNumberKey(self, input) ==
    IF input <= realLength(self.choices)
    THEN LET s1 == [self EXCEPT !.pointer = input - 1]
         IN  render(toggle(s1, getChoice(s1.choices, s1.pointer)), NoError)
    ELSE render(self, NoError)

onSpaceKey(self) ==
    IF getChoice(self.choices, self.pointer) = 0 THEN self
    ELSE render(toggle(self, getChoice(self.choices, self.pointer)), NoError)

onAllKey(self) ==
    LET shouldBeChecked ==
            \E i \in 1..Len(self.choices) :
                self.choices[i].type # "separator" /\ ~self.choices[i].checked
    IN  render([self EXCEPT !.choices =
                   [i \in 1..Len(self.choices) |->
                       IF self.choices[i].type # "separator"
                       THEN [self.choices[i] EXCEPT !.checked = shouldBeChecked]
                       ELSE self.choices[i]]], NoError)

onInverseKey(self) ==
    render([self EXCEPT !.choices =
               [i \in 1..Len(self.choices) |->
                   IF self.choices[i].type # "separator"
                   THEN [self.choices[i] EXCEPT !.checked = ~@]
                   ELSE self.choices[i]]], NoError)

onKeypress(self) == render(executeSource(self), NoError)

(***************************************************************************)
(* The host: readline edits rl.line before the handlers of a key run, and  *)
(* the handlers run in the order _run subscribed them.                     *)
(***************************************************************************)
Digits == {"2"}
digitValue(key) == IF key = "2" THEN 2 ELSE 0
SearchKeys == {"up", "down", "space", "backspace", "x"}
ListKeys == {"up", "down", "space", "backspace", "a", "i"} \cup Digits

ttyWrite(line, key) ==
    CASE key \in {"up", "down"} -> line
      [] key = "backspace" -> IF line = <<>> THEN line ELSE SubSeq(line, 1, Len(line) - 1)
      [] key = "space" -> Append(line, " ")
      [] OTHER -> Append(line, key)

\* One keypress event passing through the subscriptions of _run, in order.
keypressEvent(self, key) ==
    LET s1 == IF key = "up" THEN onUpKey(self) ELSE self
        s2 == IF key = "down" THEN onDownKey(s1) ELSE s1
        s3 == onKeypress(s2)
        s4 == IF key = "space" THEN onSpaceKey(s3) ELSE s3
    IN  IF ~self.opt.searchable
        THEN LET s5 == IF key \in Digits THEN onNumberKey(s4, digitValue(key)) ELSE s4
                 s6 == IF key = "a" THEN onAllKey(s5) ELSE s5
             IN  IF key = "i" THEN onInverseKey(s6) ELSE s6
        ELSE onKeypress(s4)

\* The callback _run gives to executeSource().then: subscribe, and start.
runSubscribed(self) ==
    LET s1 == [self EXCEPT !.subscribed = TRUE]
        s2 == IF s1.rlLine # <<>> THEN onKeypress(s1) ELSE s1
    IN  render(s2, NoError)

\* A line event whose outcome is taken for a success whatever isValid is.
lineEventNoGate(self) ==
    LET current == getCurrentValue([self EXCEPT !.rlLine = <<>>])
        checkedAnswer == validate(self.opt, current.value)
        state == [isValid |-> checkedAnswer.isValid, value |-> current.value,
                  consulted |-> checkedAnswer.consulted]
    IN  onEnd(current.self, state)

\* One line event passing through handleSubmitEvents: the current value is
\* validated, and onEnd or onError is called with the outcome.
lineEvent(self) ==
    LET current == getCurrentValue([self EXCEPT !.rlLine = <<>>])
        checkedAnswer == validate(self.opt, current.value)
        state == [isValid |-> checkedAnswer.isValid, value |-> current.value,
                  consulted |-> checkedAnswer.consulted]
    IN  IF state.isValid = True THEN onEnd(current.self, state)
        ELSE onError(current.self, state)

(***************************************************************************)
(* Configurations.                                                         *)
(***************************************************************************)
StaticSource == SourceResults[2]

\* The options left unset, and those of the example (src/example.js).
Unset == [minimumChoices |-> Bare(0), maximumChoices |-> Bare(NullNum),
          validate |-> "none", default |-> NullDefault]
Example == [minimumChoices |-> Bare(1),
            maximumChoices |-> Pair(2, "You cannot choose every one!"),
            validate |-> "includes",
            default |-> DefaultOf(<<Str("a"), NameObj("B-label")>>)]

Option(searchable, source, o) ==
    [searchable |-> searchable, source |-> source,
     minimumChoices |-> o.minimumChoices, maximumChoices |-> o.maximumChoices,
     validate |-> o.validate, default |-> o.default]

NoValidation == [isValid |-> NoError, value |-> <<>>, consulted |-> FALSE]

\* The source option: a function, a static list, or none at all.
Configs ==
    { Option(s, src, o) : s \in BOOLEAN, src \in {"function", "static", "missing"},
                          o \in {Unset, Example} }

ValidConfigs ==
    {o \in Configs : o.source # "missing" /\ (o.searchable => o.source = "function")}

\* What is there before the constructor's "Init" block has run.
Uninitialised(o) ==
    [opt |-> o, started |-> FALSE, subscribed |-> FALSE, status |-> "pending",
     rlLine |-> <<>>, pointer |-> 0, firstSourceLoading |-> FALSE,
     choices |-> <<>>, checkedChoices |-> <<>>, value |-> <<>>,
     lastQuery |-> NullQuery, searching |-> FALSE, lastSourcePromise |-> 0,
     default |-> NullDefault, selection |-> <<>>, promises |-> <<>>,
     bottomContent |-> NoError, validation |-> NoValidation, done |-> <<>>,
     initialised |-> FALSE, thrown |-> NoThrow]

\* constructor(questions, rl, answers), the question holding the options o.
constructor(o) ==
    IF o.source = "missing"
    THEN [Uninitialised(o) EXCEPT !.thrown = ParamError]
    ELSE [Uninitialised(o) EXCEPT
            !.pointer = 0,
            !.firstSourceLoading = TRUE,
            !.choices = <<>>,
            !.checkedChoices = <<>>,
            !.value = <<>>,
            !.lastQuery = NullQuery,
            !.searching = FALSE,
            !.lastSourcePromise = 0,
            !.default = o.default,
            !.opt.default = NullDefault,
            !.initialised = TRUE]

\* The variables hold the fields of the object self.
Is(self) ==
    /\ opt = self.opt
    /\ started = self.started
    /\ subscribed = self.subscribed
    /\ status = self.status
    /\ rlLine = self.rlLine
    /\ pointer = self.pointer
    /\ firstSourceLoading = self.firstSourceLoading
    /\ choices = self.choices
    /\ checkedChoices = self.checkedChoices
    /\ value = self.value
    /\ lastQuery = self.lastQuery
    /\ searching = self.searching
    /\ lastSourcePromise = self.lastSourcePromise
    /\ default = self.default
    /\ selection = self.selection
    /\ promises = self.promises
    /\ bottomContent = self.bottomContent
    /\ validation = self.validation
    /\ done = self.done
    /\ initialised = self.initialised
    /\ thrown = self.thrown

(***************************************************************************)
(* The state machine.                                                      *)
(***************************************************************************)
Init ==
    /\ \E o \in Configs : Is(constructor(o))
    /\ resolved = [promise |-> 0, result |-> 0]

Pending == {p \in 1..Len(promises) : promises[p] = "pending"}

\* The handlers are subscribed and the prompt is not answered.
Active == started /\ subscribed /\ status = "pending"

\* A static source is wrapped in a resolved promise: its callback runs
\* before the next event of the host.
Quiescent == opt.source = "static" => Pending = {}

Keys == IF opt.searchable THEN SearchKeys ELSE ListKeys

\* _run(callback)
Run ==
    /\ initialised /\ ~started
    /\ Becomes(executeSource([Self EXCEPT !.started = TRUE]))
    /\ UNCHANGED resolved

\* A character typed before the handlers are subscribed only edits rl.line.
TypeAhead ==
    /\ started /\ ~subscribed /\ Pending # {}
    /\ Len(rlLine) < MaxLine
    /\ \E key \in {"x", "space"} :
          Becomes([Self EXCEPT !.rlLine = ttyWrite(rlLine, key)])
    /\ UNCHANGED resolved

KeyEvent(key) ==
    /\ Len(trim(ttyWrite(rlLine, key))) <= MaxLine
    /\ LET s == keypressEvent([Self EXCEPT !.rlLine = ttyWrite(rlLine, key)], key)
       IN  /\ Len(s.promises) <= MaxFetches
           /\ Becomes(s)
    /\ UNCHANGED resolved

UpKey ==
    /\ Active /\ Quiescent /\ "up" \in Keys
    /\ KeyEvent("up")

DownKey ==
    /\ Active /\ Quiescent /\ "down" \in Keys
    /\ KeyEvent("down")

SpaceKey ==
    /\ Active /\ Quiescent /\ "space" \in Keys
    /\ KeyEvent("space")

BackspaceKey ==
    /\ Active /\ Quiescent /\ "backspace" \in Keys
    /\ KeyEvent("backspace")

LetterKey ==
    /\ Active /\ Quiescent /\ "x" \in Keys
    /\ KeyEvent("x")

NumberKey ==
    /\ Active /\ Quiescent
    /\ \E key \in Digits \cap Keys : KeyEvent(key)

AllKey ==
    /\ Active /\ Quiescent /\ "a" \in Keys
    /\ KeyEvent("a")

InverseKey ==
    /\ Active /\ Quiescent /\ "i" \in Keys
    /\ KeyEvent("i")

\* The enter key: readline emits the line and clears it.
Submit ==
    /\ Active /\ Quiescent
    /\ Becomes(lineEvent(Self))
    /\ UNCHANGED resolved

\* A promise of the source resolves with one of the lists.
Resolve ==
    \E p \in Pending, r \in 1..Len(SourceResults) :
        /\ opt.source = "static" => SourceResults[r] = StaticSource
        /\ LET s0 == [Self EXCEPT !.promises[p] = "fulfilled"]
               s1 == sourceResolved(s0, p, SourceResults[r])
               s2 == IF p = 1 THEN runSubscribed(s1) ELSE s1
           IN  /\ Len(s2.promises) <= MaxFetches
               /\ Becomes(s2)
        /\ resolved' = IF p = lastSourcePromise
                       THEN [promise |-> p, result |-> r]
                       ELSE resolved

\* A promise of the source rejects: no callback of the prompt runs.
Reject ==
    \E p \in Pending :
        /\ opt.source = "function"
        /\ Becomes([Self EXCEPT !.promises[p] = "rejected"])
        /\ UNCHANGED resolved

Next ==
    \/ Run
    \/ TypeAhead
    \/ UpKey
    \/ DownKey
    \/ SpaceKey
    \/ BackspaceKey
    \/ LetterKey
    \/ NumberKey
    \/ AllKey
    \/ InverseKey
    \/ Submit
    \/ Resolve
    \/ Reject

Spec == Init /\ [][Next]_vars

\* The prompt with the options of the question left unset: the query
\* pipeline under both modes and both kinds of source.
InitQuery == Init /\ opt.validate = "none"

SpecQuery == InitQuery /\ [][Next]_vars

(***************************************************************************)
(* The validation gate alone: the wrapped validator applied to answers of  *)
(* every length under every configuration of the two criteria.             *)
(***************************************************************************)
MinCriteria == {Bare(0), Bare(1), Bare(2), Pair(1, "Pick one!"), Pair(2, "Pick two!")}
MaxCriteria == {Bare(NullNum), Bare(1), Bare(2), Bare(3), Pair(2, "Two at most!")}

RECURSIVE Answers(_)
Answers(n) ==
    IF n = 0 THEN {<<>>}
    ELSE Answers(n - 1) \cup
         {Append(a, v) : a \in {b \in Answers(n - 1) : Len(b) = n - 1},
                         v \in {Str("a"), Str("b")}}

InitValidate ==
    /\ \E o \in ValidConfigs, min \in MinCriteria, max \in MaxCriteria :
          opt = [o EXCEPT !.default = NullDefault, !.searchable = FALSE,
                          !.source = "function",
                          !.minimumChoices = min, !.maximumChoices = max]
    /\ default = NullDefault
    /\ started = FALSE
    /\ subscribed = FALSE
    /\ status = "pending"
    /\ rlLine = <<>>
    /\ pointer = 0
    /\ firstSourceLoading = TRUE
    /\ choices = <<>>
    /\ checkedChoices = <<>>
    /\ value = <<>>
    /\ lastQuery = NullQuery
    /\ searching = FALSE
    /\ lastSourcePromise = 0
    /\ selection = <<>>
    /\ promises = <<>>
    /\ bottomContent = NoError
    /\ validation = NoValidation
    /\ done = <<>>
    /\ initialised = TRUE
    /\ thrown = NoThrow
    /\ resolved = [promise |-> 0, result |-> 0]

\* this.opt.validate(answer)
Validate ==
    /\ \E answer \in Answers(MaxAnswer) :
          LET checkedAnswer == validate(opt, answer)
          IN  validation' = [isValid |-> checkedAnswer.isValid, value |-> answer,
                             consulted |-> checkedAnswer.consulted]
    /\ UNCHANGED <<opt, started, subscribed, status, rlLine, pointer,
                   firstSourceLoading, choices, checkedChoices, value, lastQuery,
                   searching, lastSourcePromise, default, selection, promises,
                   bottomContent, done, initialised, thrown, resolved>>

NextValidate == Validate

SpecValidate == InitValidate /\ [][NextValidate]_vars

(***************************************************************************)
(* Properties of the validation gate.                                      *)
(***************************************************************************)
Validated == validation # NoValidation
MinOf(o) == o.minimumChoices.n
MaxOf(o) == o.maximumChoices.n
MinMessageOf(o) ==
    IF o.minimumChoices.isArray THEN o.minimumChoices.message
    ELSE Msg(minDefaultMessage, o.minimumChoices.n)
MaxMessageOf(o) ==
    IF o.maximumChoices.isArray THEN o.maximumChoices.message
    ELSE Msg(maxDefaultMessage, o.maximumChoices.n)

\* C5: with min >= 1 and max >= min configured, the wrapped validator returns
\* the min message for an answer shorter than min, else the max message for
\* an answer longer than max, else what the caller's validator returns if
\* there is one, else true; the caller's validator is consulted only when
\* both cardinality checks passed.
ValidationGateResult ==
    (Validated /\ MinOf(opt) >= 1 /\ MaxOf(opt) >= MinOf(opt)) =>
        LET n == Len(validation.value)
        IN  /\ validation.isValid =
                  IF n < MinOf(opt) THEN MinMessageOf(opt)
                  ELSE IF n > MaxOf(opt) THEN MaxMessageOf(opt)
                  ELSE IF opt.validate # "none"
                       THEN optValidator(opt.validate, validation.value)
                  ELSE True
            /\ validation.consulted =
                  (n >= MinOf(opt) /\ n <= MaxOf(opt) /\ opt.validate # "none")

\* Witness of C5: an answer longer than a configured max >= min >= 1 was
\* refused with the max message although the caller's validator accepts it.
ValidationGateWitness ==
    /\ Validated /\ MinOf(opt) >= 1 /\ MaxOf(opt) >= MinOf(opt)
    /\ Len(validation.value) > MaxOf(opt)
    /\ opt.validate # "none"
    /\ optValidator(opt.validate, validation.value) = True
    /\ validation.isValid = MaxMessageOf(opt)
    /\ ~validation.consulted

\* C6 (as claimed): a bare integer N as minimumChoices gives the message
\* "You have to check at least N choice(s)", a bare integer N as
\* maximumChoices gives "You have to check at most N choice(s)", and a
\* [N, message] criteria gives its message unchanged.
DefaultValidationMessages ==
    Validated =>
        LET n == Len(validation.value)
            tooFew == truthy(MinOf(opt)) /\ n < MinOf(opt)
            tooMany == ~tooFew /\ truthy(MaxOf(opt)) /\ n > MaxOf(opt)
        IN  /\ tooFew => validation.isValid =
                  IF opt.minimumChoices.isArray THEN opt.minimumChoices.message
                  ELSE Msg("You have to check at least ${min} choice(s)", MinOf(opt))
            /\ tooMany => validation.isValid =
                  IF opt.maximumChoices.isArray THEN opt.maximumChoices.message
                  ELSE Msg("You have to check at most ${max} choice(s)", MaxOf(opt))


(***************************************************************************)
(* Properties of the source query pipeline.                                *)
(***************************************************************************)
\* The items of a list of Choice objects, the checked flags aside.
Raw(cs) == [i \in 1..Len(cs) |-> [cs[i] EXCEPT !.checked = FALSE]]

\* What a stale completion must leave alone: every field of the prompt.
Fields ==
    <<opt, started, subscribed, status, rlLine, pointer, firstSourceLoading,
      choices, checkedChoices, value, lastQuery, searching, lastSourcePromise,
      default, selection, bottomContent, done, initialised, thrown>>

\* This step resolves a promise that a newer query has superseded.
StaleResolution ==
    \E p \in 1..Len(promises) :
        /\ promises[p] = "pending" /\ promises'[p] = "fulfilled"
        /\ p # lastSourcePromise

\* This step resolves the promise of the most recent query: it is applied.
AppliedResolution == resolved'.promise # resolved.promise

\* Once the promise of the most recent query has resolved, the list shown is
\* the one it resolved with.
LastQueryWins ==
    (lastSourcePromise # 0 /\ promises[lastSourcePromise] = "fulfilled") =>
        /\ resolved.promise = lastSourcePromise
        /\ Raw(choices) = Raw(SourceResults[resolved.result])
        /\ ~searching

\* C1: the resolution of a superseded promise changes no field of the prompt,
\* whether it comes before or after the resolution of the query that
\* superseded it, and once the most recent query has resolved the choices
\* are those of its result.
StaleFetchImmunity ==
    [][ /\ StaleResolution => UNCHANGED Fields
        /\ LastQueryWins' ]_vars

\* Witness of C1: the second query resolved after the third was issued and
\* before the third resolved (the last applied result is still the first).
StaleFetchWitness ==
    /\ Len(promises) = 3
    /\ promises[2] = "fulfilled"
    /\ promises[3] = "pending"
    /\ resolved.promise = 1

\* A text, and the text with a space put before it and after it.
Padded(q) == {q, <<" ">> \o q \o <<" ">>}

\* executeSource called with a line whose trimmed text is lastQuery only
\* trims the line.
NoOpCall ==
    \A l \in Padded(lastQuery) :
        trim(l) = lastQuery =>
            executeSource([Self EXCEPT !.rlLine = l]) = [Self EXCEPT !.rlLine = trim(l)]

\* C2: executeSource called with a line whose trimmed text equals lastQuery
\* calls no source and changes nothing but the line (trimmed); and a step
\* issues a fetch exactly when the trimmed text differs from lastQuery, one
\* fetch at most, lastQuery becoming that text.
NoOpQuery ==
    [][ /\ NoOpCall'
        /\ Len(promises') = Len(promises) + (IF lastQuery' # lastQuery THEN 1 ELSE 0)
        /\ lastQuery' # lastQuery =>
              /\ lastQuery' = rlLine' /\ trim(rlLine') = rlLine'
              /\ lastSourcePromise' = Len(promises') /\ searching'
        /\ lastQuery' = lastQuery => lastSourcePromise' = lastSourcePromise ]_vars

\* Witness of C2: in search mode with no default, a choice was toggled with
\* the space key (which puts a space into the line) and the fetch of _run is
\* still the only one.
NoOpQueryWitness ==
    /\ opt.searchable /\ opt.validate = "none"
    /\ Active
    /\ value # <<>>
    /\ Len(promises) = 1

\* The i-th choice matches an entry of the default list: by value for a
\* plain entry, by name for a {name} entry.
MatchesDefault(c, d) ==
    \/ d.t = "string" /\ isEqual(c.value, d)
    \/ d.t = "object" /\ c.type # "separator" /\ c.name = d.s

\* C3 (as claimed): the first applied fetch checks, and puts into value,
\* every fetched choice whose value equals a plain default entry and every
\* fetched choice whose name is that of a {name} default entry.
DefaultsCoverBothMatchers ==
    [][ (AppliedResolution /\ ~default.isNull) =>
            \A i \in 1..Len(choices'), j \in 1..Len(default.list) :
                MatchesDefault(choices'[i], default.list[j]) =>
                    choices'[i].checked /\ some(value', choices'[i].value) ]_vars

\* C4: the default list is applied by one fetch completion, the first one
\* applied, and is null ever after; a later applied fetch checks a choice
\* only if its value was in value just before.
DefaultsConsumedOnce ==
    [][ /\ default.isNull => default'.isNull
        /\ ~firstSourceLoading' => default'.isNull
        /\ AppliedResolution =>
              /\ default'.isNull /\ ~firstSourceLoading'
              /\ default.isNull =>
                    \A i \in 1..Len(choices') :
                        choices'[i].checked => some(value, choices'[i].value) ]_vars

\* Witness of C4: with the default ["a", {name}], a second fetch was applied
\* and returned a choice of value "a", which is unchecked and not selected.
DefaultsConsumedWitness ==
    /\ opt.validate = "includes"
    /\ resolved.promise >= 2
    /\ promises[resolved.promise] = "fulfilled"
    /\ resolved.promise = lastSourcePromise
    /\ ~some(value, Str("a"))
    /\ \E i \in 1..Len(choices) :
          isEqual(choices[i].value, Str("a")) /\ ~choices[i].checked

(***************************************************************************)
(* Properties of the submission state machine and the selection model.     *)
(***************************************************************************)
CurrentValue == getCurrentValue(Self).value

\* C7: the status becomes answered only by a line event of the subscribed
\* prompt whose current value passes the gate, and done is then called with
\* that value; a refused line event leaves status, value, checkedChoices,
\* choices and pointer as they are and shows the message of the gate; once
\* answered, only a resolving fetch changes anything, and done has been
\* called once.
SubmissionStateMachine ==
    [][ /\ (status = "pending" /\ status' = "answered") =>
              /\ Active
              /\ validate(opt, CurrentValue).isValid = True
              /\ done' = <<CurrentValue>>
        /\ bottomContent' # NoError =>
              /\ status' = "pending"
              /\ bottomContent' = validate(opt, CurrentValue).isValid
              /\ UNCHANGED <<value, checkedChoices, choices, pointer>>
        /\ status = "answered" =>
              /\ status' = "answered" /\ done' = done
              /\ UNCHANGED <<rlLine, lastQuery, lastSourcePromise, selection>>
              /\ Len(promises') = Len(promises)
              /\ ~AppliedResolution => UNCHANGED Fields
        /\ (status' = "answered") <=> (Len(done') = 1)
        /\ Len(done') <= 1 ]_vars

\* Witness of C7: under the options of the example the prompt was answered,
\* and done was called once with a value that passes the gate.
SubmissionWitness ==
    /\ opt.validate = "includes"
    /\ status = "answered"
    /\ Len(done) = 1
    /\ Len(done[1]) \in 1..2

\* The values of the checked choices of the current list.
CheckedValues ==
    {choices[i].value : i \in {j \in 1..Len(choices) :
                                  choices[j].type # "separator" /\ choices[j].checked}}
\* The selected values that no choice of the current list has.
AbsentValues ==
    {v \in Range(value) : \A i \in 1..Len(choices) : ~isEqual(choices[i].value, v)}

\* C8 (as claimed): the values a successful submit emits are those of the
\* checked choices of the current list, and the selected values the list no
\* longer holds.
SubmitReturnsChecked ==
    [][ (status = "pending" /\ status' = "answered") =>
            Range(done'[1]) = CheckedValues \cup AbsentValues ]_vars

\* C9: value and checkedChoices have the same length, agree index by index
\* on the value, and value holds no two equal entries.
SelectionStateInvariant ==
    /\ Len(value) = Len(checkedChoices)
    /\ \A i \in 1..Len(value) : isEqual(value[i], checkedChoices[i].value)
    /\ \A i, j \in 1..Len(value) : i # j => ~isEqual(value[i], value[j])

\* Witness of C9: with no default, two choices of the current list share the
\* value "a", both are checked, and the value is selected once, under the
\* second of them.
SelectionStateWitness ==
    /\ opt.validate = "none"
    /\ Len(choices) = 4
    /\ choices[1].checked /\ choices[2].checked
    /\ isEqual(choices[1].value, choices[2].value)
    /\ value = <<Str("a")>>
    /\ checkedChoices[1].name = "A-again"

\* C10 (as claimed): toggling a choice of the current list twice leaves
\* value and checkedChoices with the elements they had and the choice's
\* checked flag as it was.
IdempotentToggle ==
    Active =>
        \A k \in 1..realLength(choices) :
            LET i == realChoices(choices)[k]
                twice == toggle(toggle(Self, i), i)
            IN  /\ Range(twice.value) = Range(value)
                /\ Range(twice.checkedChoices) = Range(checkedChoices)
                /\ twice.choices[i].checked = choices[i].checked

(***************************************************************************)
(* Properties of the navigation handlers.                                  *)
(***************************************************************************)
\* C11: with n = realLength > 0 selectable choices (separators and disabled
\* choices not counted), the up key takes the pointer p to (p - 1) mod n and
\* the down key takes it to (p + 1) mod n, and neither changes the choices,
\* their checked flags, value or checkedChoices.
PointerWraparound ==
    [][ LET n == realLength(choices)
        IN  n > 0 =>
              /\ UpKey => /\ pointer' = (pointer - 1) % n
                          /\ UNCHANGED <<choices, value, checkedChoices>>
              /\ DownKey => /\ pointer' = (pointer + 1) % n
                            /\ UNCHANGED <<choices, value, checkedChoices>> ]_vars

\* Witness of C11: on a list of four entries of which two are selectable,
\* with one fetch issued and nothing selected, the pointer is on the last
\* selectable choice: one up key, or one down key, from the first.
PointerWraparoundWitness ==
    /\ Active
    /\ Len(promises) = 1
    /\ Len(choices) = 4 /\ realLength(choices) = 2
    /\ pointer = 1
    /\ value = <<>>

\* C14: whenever the current list has selectable choices, the pointer is
\* the index of one of them: 0 <= pointer <= realLength - 1.
PointerInRange ==
    realLength(choices) > 0 => pointer \in 0..(realLength(choices) - 1)

\* Witness of C14: the third fetch has been applied and the pointer is on
\* the last selectable choice of its list, not the first.
PointerInRangeWitness ==
    /\ resolved.promise = 3
    /\ realLength(choices) > 1
    /\ pointer = realLength(choices) - 1

(***************************************************************************)
(* Properties of the configuration and of failing fetches.                 *)
(***************************************************************************)
\* C12: without a source the constructor throws the parameter error before
\* its "Init" block has set any field, and the prompt is never run; in search
\* mode with a source that is not a function, _run throws on its call of
\* executeSource with no fetch issued and lastQuery, lastSourcePromise and
\* searching as the constructor left them; with a function, or with a static
\* list outside search mode, nothing is thrown.
ConfigurationErrors ==
    /\ opt.source = "missing" =>
          Self = [Uninitialised(opt) EXCEPT !.thrown = ParamError]
    /\ (opt.source = "static" /\ opt.searchable) =>
          /\ initialised
          /\ ~started => thrown = NoThrow
          /\ started =>
                /\ thrown = SourceError
                /\ promises = <<>>
                /\ lastQuery = NullQuery /\ lastSourcePromise = 0 /\ ~searching
                /\ ~subscribed
    /\ (opt.source = "function" \/ (opt.source = "static" /\ ~opt.searchable)) =>
          initialised /\ thrown = NoThrow

\* Witness of C12: a prompt in search mode with a static list was run, and
\* threw.
ConfigurationErrorsWitness ==
    /\ opt.searchable /\ opt.source = "static"
    /\ started
    /\ thrown = SourceError

\* This step rejects a promise of the source.
FetchRejected ==
    \E p \in 1..Len(promises) : promises[p] = "pending" /\ promises'[p] = "rejected"

\* C13 (as claimed): when a promise of the source rejects, the failure is
\* thrown to the caller of the prompt and the prompt is no longer active; no
\* fetch is issued again, and choices, value, checkedChoices and the pointer
\* are as they were.
FetchFailureIsFatal ==
    [][ FetchRejected =>
            /\ thrown' # NoThrow
            /\ ~Active'
            /\ Len(promises') = Len(promises)
            /\ UNCHANGED <<choices, value, checkedChoices, pointer>> ]_vars

\* C15: searching is true exactly when a query has been issued and the
\* promise of the most recent one has not resolved; the resolution of a
\* superseded promise leaves searching as it is, and searching turns true
\* only in a step that issues a query.
SearchingTracksLastQuery ==
    [][ /\ searching' <=> /\ lastSourcePromise' # 0
                          /\ promises'[lastSourcePromise'] # "fulfilled"
        /\ StaleResolution => searching' = searching
        /\ (~searching /\ searching') => Len(promises') = Len(promises) + 1
        /\ (searching /\ ~searching') =>
              /\ promises[lastSourcePromise] = "pending"
              /\ promises'[lastSourcePromise] = "fulfilled" ]_vars

\* Witness of C15: a superseded promise has resolved, unapplied, while the
\* promise of the most recent query is pending, and searching is true.
SearchingWitness ==
    /\ searching
    /\ lastSourcePromise # 0
    /\ promises[lastSourcePromise] = "pending"
    /\ \E p \in 1..Len(promises) :
          /\ p > resolved.promise /\ p < lastSourcePromise
          /\ promises[p] = "fulfilled"

(***************************************************************************)
(* Properties of the selection across fetches.                             *)
(***************************************************************************)
\* C16: when the promise of the most recent query resolves and the default
\* list has been consumed, each choice of the new list is checked exactly
\* when its value equals a value that was in value just before, value holds
\* the same set of values as before (those no choice of the new list has
\* among them), and the pointer is 0.
SelectionReconciliation ==
    [][ (AppliedResolution /\ default.isNull) =>
            /\ \A i \in 1..Len(choices') :
                  choices'[i].checked <=> some(value, choices'[i].value)
            /\ Range(value') = Range(value)
            /\ pointer' = 0 ]_vars

\* Witness of C16: with no default, a fetch after the first has been
\* applied; a choice of its list is checked, a selected value has no choice
\* in it, and the pointer is 0.
SelectionReconciliationWitness ==
    /\ opt.validate = "none"
    /\ resolved.promise >= 2
    /\ resolved.promise = lastSourcePromise
    /\ promises[lastSourcePromise] = "fulfilled"
    /\ CheckedValues # {}
    /\ AbsentValues # {}
    /\ pointer = 0

\* C17 (as claimed): with no fetch outstanding, each choice of the current
\* list that is not a separator is checked exactly when its value equals an
\* entry of value.
CheckedAgreesWithValue ==
    Pending = {} =>
        \A i \in 1..Len(choices) :
            choices[i].type # "separator" =>
                (choices[i].checked <=> some(value, choices[i].value))

\* C18 (as claimed): neither value nor checkedChoices holds the value of a
\* choice that is disabled in the current list, and done is never called
\* with one.
DisabledNeverSelected ==
    \A i \in 1..Len(choices) :
        (choices[i].type # "separator" /\ choices[i].disabled) =>
            /\ ~some(value, choices[i].value)
            /\ ~some(map(checkedChoices, "value"), choices[i].value)

\* C19 (as claimed): outside search mode, once the handlers are subscribed
\* no step issues a fetch, sets searching, or replaces the list.
SingleFetchWithoutSearch ==
    [][ (~opt.searchable /\ subscribed) =>
            /\ Len(promises') = Len(promises)
            /\ ~searching'
            /\ Raw(choices') = Raw(choices) ]_vars

\* C20 (as claimed): once the prompt is answered, no step changes the
\* choices, their checked flags, value, checkedChoices or the pointer.
AnsweredFreezesState ==
    [][ status = "answered" =>
            UNCHANGED <<choices, value, checkedChoices, pointer>> ]_vars

====
